---- MODULE Spec2Model ----
(***************************************************************************)
(* Model of src/src/giwbridge/giw_bridge.cpp: the GiwBridge class (the     *)
(* host side of the host <-> GUI message protocol) and the giw_* entry     *)
(* points the debugger extension calls.                                    *)
(*                                                                         *)
(* The socket is a FIFO of tokens.  One token stands for one fixed-width   *)
(* value of the wire format (a kind tag, a length prefix, a count prefix)  *)
(* or one raw byte of a string.  The GUI peer and the companion process    *)
(* are the environment: the peer writes frames and closes the connection   *)
(* at any moment, the process may exit at any moment.                      *)
(*                                                                         *)
(* The blocking points of the code (waitForReadyRead) are the places       *)
(* where the environment interleaves with an operation: pc names the       *)
(* position of the one host thread inside the bridge.                      *)
(***************************************************************************)
EXTENDS Integers, Sequences, FiniteSets, TLC

VARIABLES
    handler,            \* the AppHandler the host holds: "null", "live", "freed"
    listening,          \* server_ is listening
    process_,           \* the companion process as the OS sees it
    client_,            \* QTcpSocket* client_: NULL or the accepted socket
    peerOpen,           \* the peer's end of the connection is still open
    stream,             \* tokens written by the peer, not yet read by the bridge
    received_messages_, \* std::map<MessageType, unique_ptr<UiMessage>>
    pc,                 \* position of the host thread
    op,                 \* the entry point being executed (or just returned)
    ret,                \* the value the executing call returns
    got,                \* get_observed_symbols: response != nullptr
    arg,                \* the argument of the executing call
    log,                \* what the executing call did to the outside, in order
    timedOut,           \* the executing call's read pass found no readable bytes
    crash,              \* "none", or how the host process died
    queued,             \* history: the frames buffered when the call began, if the
                        \*   inbox was empty then and the peer has not written since
    reply,              \* history: the response the peer wrote after this call's request
    peerWrote,          \* history: the classes of frames the peer has written so far
    waits               \* history: the waitForReadyRead calls of the executing
                        \*   call's read pass: 0, 1, or 2 for "more than one"

vars == <<handler, listening, process_, client_, peerOpen, stream,
          received_messages_, pc, op, ret, got, arg, log, timedOut, crash,
          queued, reply, peerWrote, waits>>

(***************************************************************************)
(* Bounds of the model.                                                    *)
(***************************************************************************)
\* Capacity of the socket's receive buffer, in tokens.
MaxStream == 6
\* Longest symbol list the peer or the host sends.
MaxSyms == 2
\* Longest sequence of stores and takes applied to an inbox on its own.
MaxOps == 3

\* The bytes symbol and buffer names are made of ('a', 'b').
Chars == {97, 98}
\* Names are one-byte strings.
Names == {<<c>> : c \in Chars}

SeqsUpTo(S, n) == UNION {[1..k -> S] : k \in 0..n}

SymLists == SeqsUpTo(Names, MaxSyms)

Min(a, b) == IF a < b THEN a ELSE b

(***************************************************************************)
(* Message kinds (ipc/message_exchange.h, an enum in declaration order).   *)
(***************************************************************************)
GetObservedSymbols == 0
GetObservedSymbolsResponse == 1
SetAvailableSymbols == 2
PlotBufferRequest == 3

\* A tag value outside the enumeration.
UnknownTags == {7}

NULL == 0

\* "Not applicable", for the history variables: no list of frames or of
\* names the peer can write.
NA == << <<-1>> >>

\* nullptr of type unique_ptr<UiMessage>
nullmsg == [type |-> "nullptr"]

PlotBufferRequestMessage(name) ==
    [type |-> "PlotBufferRequestMessage", buffer_name |-> name]

GetObservedSymbolsResponseMessage(syms) ==
    [type |-> "GetObservedSymbolsResponseMessage", observed_symbols |-> syms]

(***************************************************************************)
(* Wire codec: MessageComposer and MessageDecoder.                         *)
(***************************************************************************)
\* String ::= LengthPrefix RawBytes
push_string(s) == <<Len(s)>> \o s

RECURSIVE push_strings(_)
push_strings(l) ==
    IF l = <<>> THEN <<>> ELSE push_string(Head(l)) \o push_strings(Tail(l))

\* StringSeq ::= CountPrefix String*
push_symbols(l) == <<Len(l)>> \o push_strings(l)

\* Reads a length prefix and that many bytes.  A short read yields what
\* was there: nothing is padded.
receive_string(s) ==
    IF s = <<>>
    THEN [val |-> <<>>, rest |-> <<>>]
    ELSE LET body == Tail(s)
             k    == Min(Head(s), Len(body))
         IN  [val |-> SubSeq(body, 1, k), rest |-> SubSeq(body, k + 1, Len(body))]

RECURSIVE receive_strings(_, _, _)
receive_strings(n, s, acc) ==
    IF n <= 0 \/ s = <<>>
    THEN [val |-> acc, rest |-> s]
    ELSE LET r == receive_string(s)
         IN  receive_strings(n - 1, r.rest, Append(acc, r.val))

\* Reads a count prefix and that many strings.
receive_symbol_list(s) ==
    IF s = <<>>
    THEN [val |-> <<>>, rest |-> <<>>]
    ELSE receive_strings(Head(s), Tail(s), <<>>)

(***************************************************************************)
(* The frames the peer writes.                                             *)
(***************************************************************************)
PlotFrame(name) == <<PlotBufferRequest>> \o push_string(name)

ResponseFrame(syms) == <<GetObservedSymbolsResponse>> \o push_symbols(syms)

SetAvailableFrame(syms) == <<SetAvailableSymbols>> \o push_symbols(syms)

PlotFrames == {PlotFrame(n) : n \in Names}

ResponseFrames == {ResponseFrame(l) : l \in SymLists}

\* Frames whose kind the client does not decode: host-to-GUI kinds and
\* values outside the enumeration.
BadFrames ==
    {<<GetObservedSymbols>>, SetAvailableFrame(<< <<97>> >>)}
        \cup {<<t>> \o push_string(<<97>>) : t \in UnknownTags}

PeerFrames == PlotFrames \cup ResponseFrames \cup BadFrames

\* s cut into the frames the peer wrote, when s is nothing but whole
\* frames; NA otherwise.  No frame is a prefix of another one.
RECURSIVE ParseFrames(_)
ParseFrames(s) ==
    IF s = <<>> THEN <<>>
    ELSE LET heads == {f \in PeerFrames : Len(f) <= Len(s) /\ SubSeq(s, 1, Len(f)) = f}
         IN  IF heads = {} THEN NA
             ELSE LET f == CHOOSE f \in heads : TRUE
                      t == ParseFrames(SubSeq(s, Len(f) + 1, Len(s)))
                  IN  IF t = NA THEN NA ELSE <<f>> \o t

FrameClass(f) ==
    IF f \in ResponseFrames THEN "response"
    ELSE IF f \in PlotFrames THEN "plot" ELSE "bad"

\* The payload of a frame the peer wrote.
PlotName(f) == SubSeq(f, 3, Len(f))

ResponseSymbols(f) == receive_symbol_list(Tail(f)).val

(***************************************************************************)
(* Values the entry points return to the host.                             *)
(***************************************************************************)
NoRet == [kind |-> "none", b |-> FALSE, syms |-> <<>>]

RetVoid == [kind |-> "void", b |-> FALSE, syms |-> <<>>]

RetBool(v) == [kind |-> "bool", b |-> v, syms |-> <<>>]

RetSyms(l) == [kind |-> "symbols", b |-> FALSE, syms |-> l]

\* RAISE_PY_EXCEPTION
RetException == [kind |-> "exception", b |-> FALSE, syms |-> <<>>]

EntryPoints ==
    {"giw_cleanup", "giw_exec", "giw_is_window_ready", "giw_get_observed_buffers",
     "giw_set_available_symbols", "giw_run_event_loop"}

\* std::string::c_str() read as a C string: the bytes before the first NUL.
RECURSIVE c_str(_)
c_str(s) ==
    IF s = <<>> \/ Head(s) = 0 THEN <<>> ELSE <<Head(s)>> \o c_str(Tail(s))

(***************************************************************************)
(* received_messages_ and try_get_stored_message.                          *)
(***************************************************************************)
\* Variant: the entry is handed out and left in the map.
MapEraseNot(m, k) == m

MapErase(m, k) == [x \in DOMAIN m \ {k} |-> m[x]]

\* Variant: a stored message is kept until it is taken.
MapStoreFirst(m, k, v) ==
    IF k \in DOMAIN m THEN m ELSE [x \in DOMAIN m \cup {k} |-> IF x = k THEN v ELSE m[x]]

MapStore(m, k, v) == [x \in DOMAIN m \cup {k} |-> IF x = k THEN v ELSE m[x]]

try_get_stored_message(m, msg_type) ==
    IF msg_type \in DOMAIN m
    THEN [result |-> m[msg_type], map |-> MapErase(m, msg_type)]
    ELSE [result |-> nullmsg, map |-> m]

(***************************************************************************)
(* Decoding.                                                               *)
(***************************************************************************)
decode_plot_buffer_request(s) ==
    LET r == receive_string(s)
    IN  [msg |-> PlotBufferRequestMessage(r.val), rest |-> r.rest]

decode_get_observed_symbols_response(s) ==
    LET r == receive_symbol_list(s)
    IN  [msg |-> GetObservedSymbolsResponseMessage(r.val), rest |-> r.rest]

\* Variant: the default branch stores what follows the tag, under the tag.
read_frame_default_stores(s, m) ==
    LET header == Head(s)
        body   == Tail(s)
    IN  IF header = GetObservedSymbolsResponse
        THEN LET d == decode_get_observed_symbols_response(body)
             IN  [stream |-> d.rest, map |-> [x \in DOMAIN m \cup {header} |->
                                                IF x = header THEN d.msg ELSE m[x]]]
        ELSE LET d == decode_plot_buffer_request(body)
             IN  [stream |-> d.rest, map |-> [x \in DOMAIN m \cup {header} |->
                                                IF x = header THEN d.msg ELSE m[x]]]

\* One iteration of the loop of try_read_incoming_messages with bytes
\* available: read the header, decode and store by kind.
read_frame(s, m) ==
    LET header == Head(s)
        body   == Tail(s)
    IN  CASE header = PlotBufferRequest ->
               LET d == decode_plot_buffer_request(body)
               IN  [stream |-> d.rest, map |-> MapStore(m, header, d.msg)]
          [] header = GetObservedSymbolsResponse ->
               LET d == decode_get_observed_symbols_response(body)
               IN  [stream |-> d.rest, map |-> MapStore(m, header, d.msg)]
          [] OTHER ->
               [stream |-> body, map |-> m]

(***************************************************************************)
(* fetch_message, in its two halves around the read pass.                  *)
(***************************************************************************)
\* Variant: fetch_message reads before it looks at what is stored.
fetch_message_stored_reads(m, msg_type) ==
    [pc |-> "gos_read", result |-> nullmsg, map |-> m]

\* "Return message if it was already received before"
fetch_message_stored(m, msg_type) ==
    LET r == try_get_stored_message(m, msg_type)
    IN  IF r.result # nullmsg
        THEN [pc |-> "done", result |-> r.result, map |-> r.map]
        ELSE [pc |-> "gos_read", result |-> nullmsg, map |-> m]

\* Variant: fetch_message reads again while the message is missing.
fetch_message_read_retry(m, msg_type) ==
    LET r == try_get_stored_message(m, msg_type)
    IN  [pc |-> IF r.result = nullmsg THEN "gos_read" ELSE "done",
         result |-> r.result, map |-> r.map]

\* After try_read_incoming_messages(): return try_get_stored_message(msg_type)
fetch_message_read(m, msg_type) ==
    LET r == try_get_stored_message(m, msg_type)
    IN  [pc |-> "done", result |-> r.result, map |-> r.map]

\* The tail of get_observed_symbols.
get_observed_symbols_return(response) ==
    IF response # nullmsg THEN response.observed_symbols ELSE <<>>

\* giw_get_observed_buffers: the PyList built from the deque.
py_observed_symbols(observed_symbols) ==
    [i \in 1..Len(observed_symbols) |-> c_str(observed_symbols[i])]

\* Variant: the drain loop of run_event_loop empties the inbox.
drain_plot_requests_all(m, acc) ==
    [map |-> <<>>,
     calls |-> IF PlotBufferRequest \in DOMAIN m
               THEN Append(acc, c_str(m[PlotBufferRequest].buffer_name))
               ELSE acc]

\* Variant: run_event_loop hands nothing to plot_callback_.
drain_plot_requests_none(m, acc) == [map |-> m, calls |-> acc]

\* The drain loop of run_event_loop: the names handed to plot_callback_.
RECURSIVE drain_plot_requests(_, _)
drain_plot_requests(m, acc) ==
    LET r == try_get_stored_message(m, PlotBufferRequest)
    IN  IF r.result = nullmsg
        THEN [map |-> m, calls |-> acc]
        ELSE drain_plot_requests(r.map, Append(acc, c_str(r.result.buffer_name)))

(***************************************************************************)
(* start, wait_for_client, is_window_ready.                                *)
(***************************************************************************)
\* Variant: listen succeeds on a server that is listening already.
listen_again(isListening, bindable) == bindable

\* server_.listen(): fails when the port cannot be bound or when the
\* server is listening already.
listen(isListening, bindable) == ~isListening /\ bindable

\* waitForNewConnection + nextPendingConnection
wait_for_client(client, connects) ==
    IF client = NULL THEN (IF connects THEN 1 ELSE NULL) ELSE client

\* Variant: start reports success once it has listened.
start_return_listened(client) == TRUE

\* return client_ != nullptr;
start_return(client) == client # NULL

\* process_.processId(): set at spawn, cleared only when QProcess is told
\* of the exit, which takes an event loop the bridge never runs.
processId(p) == IF p = "NotRunning" THEN 0 ELSE 1

\* kill(pid, 0) == 0: an exited child that was not waited for still
\* has its process id.
kill_probe(p) == p \in {"Running", "Zombie"}

\* Variant: is_window_ready probes the process alone.
is_window_ready_process_only(client, p) == processId(p) # 0 /\ kill_probe(p)

is_window_ready(client, p) ==
    client # NULL /\ processId(p) # 0 /\ kill_probe(p)

(***************************************************************************)
(* Initial state: before giw_initialize.                                   *)
(***************************************************************************)
Init ==
    /\ handler = "null"
    /\ listening = FALSE
    /\ process_ = "NotRunning"
    /\ client_ = NULL
    /\ peerOpen = FALSE
    /\ stream = <<>>
    /\ received_messages_ = <<>>
    /\ pc = "idle"
    /\ op = "none"
    /\ ret = NoRet
    /\ got = FALSE
    /\ arg = NA
    /\ log = <<>>
    /\ timedOut = FALSE
    /\ crash = "none"
    /\ queued = NA
    /\ reply = NA
    /\ peerWrote = {}
    /\ waits = 0

Idle == pc = "idle" /\ crash = "none"

bridge == <<listening, process_, client_, peerOpen, stream, received_messages_>>

history == <<queued, reply, peerWrote, waits>>

(***************************************************************************)
(* Entry points.                                                           *)
(***************************************************************************)
giw_initialize ==
    /\ Idle
    /\ handler = "null"
    /\ handler' = "live"
    /\ UNCHANGED <<bridge, pc, op, ret, got, arg, log, timedOut, crash, history>>

\* Every entry point but giw_initialize: if (app == nullptr) raise.
NullHandler ==
    /\ Idle
    /\ handler = "null"
    /\ \E e \in EntryPoints : op' = e
    /\ ret' = RetException
    /\ pc' = "done"
    /\ UNCHANGED <<handler, bridge, got, arg, log, timedOut, crash, history>>

\* delete app: ~GiwBridge kills the process.  The handle is dead from
\* here on and the host makes no further call with it.
giw_cleanup ==
    /\ Idle
    /\ handler = "live"
    /\ handler' = "freed"
    /\ process_' = IF process_ = "NotRunning" THEN "NotRunning" ELSE "Reaped"
    /\ listening' = FALSE
    /\ peerOpen' = FALSE
    /\ UNCHANGED <<client_, stream, received_messages_, pc, op, ret, got, arg, log,
                   timedOut, crash, history>>

\* giw_exec: app->start(), the result dropped.
giw_exec ==
    /\ Idle
    /\ handler = "live"
    /\ op' = "giw_exec"
    /\ pc' = "done"
    /\ \E bindable \in BOOLEAN, spawned \in BOOLEAN, connects \in BOOLEAN :
         IF ~listen(listening, bindable)
         THEN /\ ret' = RetBool(FALSE)
              /\ log' = <<>>
              /\ UNCHANGED <<listening, process_, client_, peerOpen>>
         ELSE /\ listening' = TRUE
              /\ process_' = IF spawned THEN "Running" ELSE "NotRunning"
              /\ client_' = wait_for_client(client_, connects)
              /\ peerOpen' = (client_' # NULL)
              /\ log' = << <<"spawn">> >>
                          \o (IF client_ = NULL THEN << <<"wait">> >> ELSE <<>>)
              /\ ret' = RetBool(start_return(client_'))
    /\ UNCHANGED <<handler, stream, received_messages_, got, arg, timedOut, crash, history>>

giw_is_window_ready ==
    /\ Idle
    /\ handler = "live"
    /\ op' = "giw_is_window_ready"
    /\ pc' = "done"
    /\ ret' = RetBool(is_window_ready(client_, process_))
    /\ UNCHANGED <<handler, bridge, got, arg, log, timedOut, crash, history>>

\* assert(client_ != nullptr) fails, or, compiled out, the null socket
\* is dereferenced.
Crash ==
    /\ crash' \in {"assert", "null dereference"}
    /\ UNCHANGED <<handler, bridge, pc, ret, got, arg, log, timedOut, history>>

\* Variant: set_available_symbols sends the kind without the names.
set_available_symbols_kind_only(available_vars) == <<SetAvailableSymbols>>

\* set_available_symbols: one frame composed and sent.
set_available_symbols(available_vars) ==
    <<SetAvailableSymbols>> \o push_symbols(available_vars)

giw_set_available_symbols ==
    /\ Idle
    /\ handler = "live"
    /\ op' = "giw_set_available_symbols"
    /\ \/ /\ client_ = NULL
          /\ Crash
       \/ /\ client_ # NULL
          /\ \E available_vars \in SymLists :
               /\ arg' = available_vars
               /\ log' = << <<"send", set_available_symbols(available_vars)>> >>
          /\ pc' = "done"
          /\ ret' = RetVoid
          /\ UNCHANGED <<handler, bridge, got, timedOut, crash, history>>

\* get_observed_symbols up to message_composer.send(client_).
giw_get_observed_buffers ==
    /\ Idle
    /\ handler = "live"
    /\ op' = "giw_get_observed_buffers"
    /\ \/ /\ client_ = NULL
          /\ Crash
       \/ /\ client_ # NULL
          /\ log' = << <<"send", <<GetObservedSymbols>> >> >>
          /\ pc' = "gos_fetch"
          /\ reply' = NA
          /\ queued' = IF received_messages_ = <<>> THEN ParseFrames(stream) ELSE NA
          /\ UNCHANGED <<handler, bridge, ret, got, arg, timedOut, crash, peerWrote, waits>>

\* fetch_message before the read pass.
fetch_stored ==
    /\ pc = "gos_fetch"
    /\ LET f == fetch_message_stored(received_messages_, GetObservedSymbolsResponse)
       IN  /\ pc' = f.pc
           /\ received_messages_' = f.map
           /\ got' = (f.result # nullmsg)
           /\ ret' = IF f.pc = "done"
                     THEN RetSyms(py_observed_symbols(get_observed_symbols_return(f.result)))
                     ELSE ret
    /\ UNCHANGED <<handler, listening, process_, client_, peerOpen, stream, op,
                   arg, log, timedOut, crash, history>>

\* run_event_loop up to the first waitForReadyRead.
giw_run_event_loop ==
    /\ Idle
    /\ handler = "live"
    /\ op' = "giw_run_event_loop"
    /\ \/ /\ client_ = NULL
          /\ Crash
       \/ /\ client_ # NULL
          /\ pc' = "rel_read"
          /\ log' = <<>>
          /\ queued' = IF received_messages_ = <<>> THEN ParseFrames(stream) ELSE NA
          /\ UNCHANGED <<handler, bridge, ret, got, arg, timedOut, crash, reply, peerWrote, waits>>

\* One iteration of the do-while of try_read_incoming_messages and, when
\* it is the last one, the rest of the caller.
try_read_incoming_messages ==
    /\ pc \in {"gos_read", "rel_read"}
    /\ LET nobytes == stream = <<>>
           f == IF nobytes
                THEN [stream |-> stream, map |-> received_messages_]
                ELSE read_frame(stream, received_messages_)
           last == nobytes \/ f.stream = <<>>
       IN  /\ stream' = f.stream
           /\ timedOut' = (timedOut \/ (nobytes /\ peerOpen))
           /\ waits' = Min(waits + 1, 2)
           /\ IF ~last
              THEN /\ received_messages_' = f.map
                   /\ UNCHANGED <<pc, ret, got, log>>
              ELSE IF pc = "gos_read"
              THEN LET fm == fetch_message_read(f.map, GetObservedSymbolsResponse)
                   IN  /\ pc' = fm.pc
                       /\ received_messages_' = fm.map
                       /\ got' = (fm.result # nullmsg)
                       /\ ret' = IF fm.pc = "done"
                                 THEN RetSyms(py_observed_symbols(
                                          get_observed_symbols_return(fm.result)))
                                 ELSE ret
                       /\ UNCHANGED log
              ELSE LET d == drain_plot_requests(f.map, <<>>)
                   IN  /\ pc' = "done"
                       /\ received_messages_' = d.map
                       /\ log' = log \o [i \in 1..Len(d.calls) |-> <<"callback", d.calls[i]>>]
                       /\ ret' = RetVoid
                       /\ UNCHANGED got
    /\ UNCHANGED <<handler, listening, process_, client_, peerOpen, op, arg, crash,
                   queued, reply, peerWrote>>

\* The call returns to the host.
Return ==
    /\ pc = "done"
    /\ pc' = "idle"
    /\ op' = "none"
    /\ ret' = NoRet
    /\ got' = FALSE
    /\ arg' = NA
    /\ log' = <<>>
    /\ timedOut' = FALSE
    /\ queued' = NA
    /\ reply' = NA
    /\ waits' = 0
    /\ UNCHANGED <<handler, bridge, crash, peerWrote>>

(***************************************************************************)
(* The environment: the GUI peer and the companion process.                *)
(***************************************************************************)
\* The environment moves while the host is outside the bridge or blocked
\* inside it.  pc = "done" is the instant of the return: a move of the
\* environment there is the same move made right after the return.
EnvRuns == handler = "live" /\ crash = "none" /\ pc # "done"

PeerWrite ==
    /\ EnvRuns
    /\ client_ # NULL
    /\ peerOpen
    /\ \E f \in PeerFrames :
         /\ Len(stream) + Len(f) <= MaxStream
         /\ stream' = stream \o f
         /\ peerWrote' = peerWrote \cup {FrameClass(f)}
         /\ reply' = IF pc \in {"gos_fetch", "gos_read"} /\ f \in ResponseFrames
                     THEN ResponseSymbols(f)
                     ELSE reply
    /\ queued' = NA
    /\ UNCHANGED <<handler, listening, process_, client_, peerOpen,
                   received_messages_, pc, op, ret, got, arg, log, timedOut, crash, waits>>

PeerClose ==
    /\ EnvRuns
    /\ client_ # NULL
    /\ peerOpen
    /\ peerOpen' = FALSE
    /\ UNCHANGED <<handler, listening, process_, client_, stream,
                   received_messages_, pc, op, ret, got, arg, log, timedOut, crash, history>>

\* The companion exits; its parent may or may not have reaped it yet.
ProcessExit ==
    /\ EnvRuns
    /\ process_ = "Running"
    /\ process_' \in {"Zombie", "Reaped"}
    /\ UNCHANGED <<handler, listening, client_, peerOpen, stream,
                   received_messages_, pc, op, ret, got, arg, log, timedOut, crash, history>>

ProcessReaped ==
    /\ EnvRuns
    /\ process_ = "Zombie"
    /\ process_' = "Reaped"
    /\ UNCHANGED <<handler, listening, client_, peerOpen, stream,
                   received_messages_, pc, op, ret, got, arg, log, timedOut, crash, history>>

Next ==
    \/ giw_initialize
    \/ NullHandler
    \/ giw_cleanup
    \/ giw_exec
    \/ giw_is_window_ready
    \/ giw_set_available_symbols
    \/ giw_get_observed_buffers
    \/ fetch_stored
    \/ giw_run_event_loop
    \/ try_read_incoming_messages
    \/ Return
    \/ PeerWrite
    \/ PeerClose
    \/ ProcessExit
    \/ ProcessReaped

Spec == Init /\ [][Next]_vars

\* The host thread is not suspended for ever: a call that is inside the
\* bridge keeps running.
FairSpec == Spec /\ WF_vars(try_read_incoming_messages) /\ WF_vars(fetch_stored)

(***************************************************************************)
(* The inbox on its own: received_messages_ under any sequence of the two  *)
(* operations the bridge applies to it, the store of                       *)
(* try_read_incoming_messages and try_get_stored_message.  The bridge is   *)
(* started and connected and is left alone; the inbox starts with any      *)
(* entries; log records the operations applied, with what the takes have   *)
(* returned.                                                               *)
(***************************************************************************)
\* The messages the peer's frames carry.
PlotMessages == {PlotBufferRequestMessage(n) : n \in Names}

ResponseMessages == {GetObservedSymbolsResponseMessage(l) : l \in SymLists}

\* The messages that are stored under kind k.
InboxMessages(k) ==
    IF k = PlotBufferRequest THEN PlotMessages ELSE ResponseMessages

\* The kinds the switch of try_read_incoming_messages stores.
StoredKinds == {PlotBufferRequest, GetObservedSymbolsResponse}

Inboxes ==
    {m \in UNION {[D -> PlotMessages \cup ResponseMessages] : D \in SUBSET StoredKinds} :
        \A k \in DOMAIN m : m[k] \in InboxMessages(k)}

InboxInit ==
    /\ handler = "live"
    /\ listening = TRUE
    /\ process_ = "Running"
    /\ client_ = 1
    /\ peerOpen = TRUE
    /\ stream = <<>>
    /\ received_messages_ \in Inboxes
    /\ pc = "idle"
    /\ op = "none"
    /\ ret = NoRet
    /\ got = FALSE
    /\ arg = NA
    /\ log = <<>>
    /\ timedOut = FALSE
    /\ crash = "none"
    /\ queued = NA
    /\ reply = NA
    /\ peerWrote = {}
    /\ waits = 0

\* received_messages_[header] = ...
InboxStore ==
    /\ Len(log) < MaxOps
    /\ \E k \in StoredKinds : \E m \in InboxMessages(k) :
         /\ received_messages_' = MapStore(received_messages_, k, m)
         /\ log' = Append(log, <<"store", k, m>>)
    /\ UNCHANGED <<handler, listening, process_, client_, peerOpen, stream, pc, op,
                   ret, got, arg, timedOut, crash, history>>

\* try_get_stored_message(msg_type)
InboxTake ==
    /\ Len(log) < MaxOps
    /\ \E msg_type \in StoredKinds :
         LET r == try_get_stored_message(received_messages_, msg_type)
         IN  /\ received_messages_' = r.map
             /\ log' = Append(log, <<"take", msg_type, r.result>>)
    /\ UNCHANGED <<handler, listening, process_, client_, peerOpen, stream, pc, op,
                   ret, got, arg, timedOut, crash, history>>

InboxNext == InboxStore \/ InboxTake

InboxSpec == InboxInit /\ [][InboxNext]_vars

TypeOK ==
    /\ handler \in {"null", "live", "freed"}
    /\ process_ \in {"NotRunning", "Running", "Zombie", "Reaped"}
    /\ client_ \in {NULL, 1}
    /\ pc \in {"idle", "gos_fetch", "gos_read", "rel_read", "done"}
    /\ Len(stream) <= MaxStream
    /\ waits \in 0..2
    /\ DOMAIN received_messages_ \subseteq {PlotBufferRequest, GetObservedSymbolsResponse}

(***************************************************************************)
(* Reading the history of the executing call.                              *)
(***************************************************************************)
\* Entry point e has run on a live bridge and is about to return.
Returned(e) == pc = "done" /\ op = e /\ handler = "live"

\* The buffer names plot_callback_ was invoked with, in order.
Callbacks == [i \in 1..Len(SelectSeq(log, LAMBDA x : x[1] = "callback")) |->
                 SelectSeq(log, LAMBDA x : x[1] = "callback")[i][2]]

\* The token sequences written to the socket, in order.
Sends == [i \in 1..Len(SelectSeq(log, LAMBDA x : x[1] = "send")) |->
             SelectSeq(log, LAMBDA x : x[1] = "send")[i][2]]

(***************************************************************************)
(* C1.  Event-loop draining: when the peer has written N whole             *)
(* PlotBufferRequest frames before a run_event_loop() call (and nothing    *)
(* else is buffered, and the peer writes nothing during the call), the     *)
(* call invokes the plot callback exactly N times, in arrival order, with  *)
(* the names of the frames.                                                *)
(* The code keeps one slot per kind: of N >= 2 frames read in one pass     *)
(* only the last reaches the callback.                                     *)
(***************************************************************************)
ClaimC1 ==
    (/\ Returned("giw_run_event_loop")
     /\ queued # NA
     /\ \A i \in 1..Len(queued) : queued[i] \in PlotFrames)
        => Callbacks = [i \in 1..Len(queued) |-> PlotName(queued[i])]

ClaimC3 ==
    (/\ Returned("giw_get_observed_buffers")
     /\ reply # NA
     /\ "bad" \notin peerWrote)
        => ret = RetSyms(reply)

(***************************************************************************)
(* C4.  Degraded response: when the peer has closed the connection without *)
(* ever writing a GetObservedSymbolsResponse, get_observed_symbols()       *)
(* returns the empty sequence as a normal value, and a run_event_loop()    *)
(* tick that finds nothing queued dispatches nothing and returns.          *)
(***************************************************************************)
ClaimC4 ==
    /\ (/\ Returned("giw_get_observed_buffers")
        /\ ~peerOpen
        /\ "response" \notin peerWrote)
          => ret = RetSyms(<<>>)
    /\ (/\ Returned("giw_run_event_loop")
        /\ ~peerOpen
        /\ "response" \notin peerWrote
        /\ queued = <<>>)
          => (Callbacks = <<>> /\ ret = RetVoid)

(***************************************************************************)
(* C5.  Protocol violation recovery: a frame whose kind the client does    *)
(* not decode is dropped as a whole, and the well-formed frame that        *)
(* follows it is decoded and stored under its own kind with its own        *)
(* payload.  Stated for the frames queued when a call begins: a bad frame  *)
(* alone leaves the inbox as it was; a bad frame followed by a             *)
(* PlotBufferRequest makes the tick call back with that name; a bad frame  *)
(* followed by a response makes get_observed_symbols() return its symbols. *)
(***************************************************************************)
ClaimC5 ==
    (/\ pc = "done"
     /\ queued # NA
     /\ Len(queued) \in {1, 2}
     /\ queued[1] \in BadFrames)
        => /\ Len(queued) = 1 => received_messages_ = <<>>
           /\ (Len(queued) = 2 /\ queued[2] \in PlotFrames /\ op = "giw_run_event_loop")
                 => (Callbacks = <<PlotName(queued[2])>> /\ received_messages_ = <<>>)
           /\ (Len(queued) = 2 /\ queued[2] \in ResponseFrames
                    /\ op = "giw_get_observed_buffers")
                 => (ret = RetSyms(ResponseSymbols(queued[2])) /\ received_messages_ = <<>>)

(***************************************************************************)
(* C6.  Fail-fast on absent connection: whatever the host calls, in        *)
(* whatever order, no protocol operation runs against an absent            *)
(* connection: assert(client_ != nullptr) never fails.                     *)
(***************************************************************************)
ClaimC6 == crash = "none"

(***************************************************************************)
(* C7.  start() returns false when listening fails, and then neither       *)
(* spawns the process nor waits for a client; it returns false when no     *)
(* client connects within the timeout, the connection staying absent; it   *)
(* returns true exactly when the call has accepted a client connection.    *)
(***************************************************************************)
ThmC7 ==
    [][(pc = "idle" /\ handler = "live" /\ op' = "giw_exec")
          => LET listenFailed == listening \/ ~listening'
                 accepted     == client_ = NULL /\ client_' # NULL
             IN  /\ ret'.kind = "bool"
                 /\ ret'.b = accepted
                 /\ listenFailed
                       => (~ret'.b /\ log' = <<>> /\ process_' = process_
                              /\ client_' = client_)
                 /\ ~listenFailed
                       => (log' = << <<"spawn">>, <<"wait">> >>
                              /\ (~ret'.b => client_' = NULL))]_vars

\* start() has listened, waited, and returned false for want of a client.
WitC7 ==
    Returned("giw_exec") /\ ~ret.b /\ log # <<>> /\ listening /\ client_ = NULL

(***************************************************************************)
(* C8.  run_event_loop() is one bounded tick: it terminates whatever the   *)
(* peer does, a peer that keeps writing frames included, and on return     *)
(* the inbox holds no PlotBufferRequest.                                   *)
(***************************************************************************)
ClaimC8 ==
    /\ [](pc = "rel_read" => <>(pc = "done"))
    /\ [](Returned("giw_run_event_loop")
             => PlotBufferRequest \notin DOMAIN received_messages_)

(***************************************************************************)
(* C9.  is_window_ready is true iff a client is connected and the process  *)
(* id is non-zero and answers the probe; as stated, it is false before a   *)
(* successful start() and in every state after the process has died.       *)
(***************************************************************************)
ClaimC9 ==
    Returned("giw_is_window_ready")
        => /\ ret.b => (listening /\ client_ # NULL)
           /\ process_ \in {"Zombie", "Reaped"} => ~ret.b

(***************************************************************************)
(* C9, amended.  is_window_ready is true iff a client is connected and the *)
(* process id is non-zero and answers the probe; it is false before a      *)
(* successful start(), false when the process was never spawned, and false *)
(* once the process has exited and been waited for.  A process that has    *)
(* exited and has not been waited for still answers the probe.             *)
(***************************************************************************)
ThmC9 ==
    Returned("giw_is_window_ready")
        => /\ ret.kind = "bool"
           /\ ret.b = (client_ # NULL /\ process_ \in {"Running", "Zombie"})
           /\ ret.b => (listening /\ client_ # NULL)
           /\ process_ \in {"NotRunning", "Reaped"} => ~ret.b

\* is_window_ready has answered true for a process that has exited.
WitC9 ==
    Returned("giw_is_window_ready") /\ ret.b /\ process_ = "Zombie"

(***************************************************************************)
(* C10.  set_available_symbols(names) writes exactly one                   *)
(* SetAvailableSymbols frame that carries names in the given order; it     *)
(* reads nothing from the socket, invokes no callback, waits for nothing   *)
(* and leaves the inbox as it was.                                         *)
(***************************************************************************)
ThmC10 ==
    [][(pc = "idle" /\ handler = "live" /\ op' = "giw_set_available_symbols"
           /\ crash' = "none")
          => /\ pc' = "done"
             /\ Len(log') = 1
             /\ log'[1][1] = "send"
             /\ Head(log'[1][2]) = SetAvailableSymbols
             /\ receive_symbol_list(Tail(log'[1][2])) = [val |-> arg', rest |-> <<>>]
             /\ stream' = stream
             /\ received_messages_' = received_messages_
             /\ ~timedOut']_vars

\* A list of two different names has been sent.
WitC10 ==
    /\ Returned("giw_set_available_symbols")
    /\ Len(arg) = 2
    /\ arg[1] # arg[2]
    /\ Sends = << <<SetAvailableSymbols, 2, 1>> \o arg[1] \o <<1>> \o arg[2] >>

\* A read pass of the executing call is over.
PassReturned ==
    /\ pc = "done"
    /\ handler = "live"
    /\ op \in {"giw_get_observed_buffers", "giw_run_event_loop"}
    /\ waits >= 1

(***************************************************************************)
(* C11.  A read-and-dispatch pass waits for readable bytes at most once,   *)
(* before the first frame; it then reads the further frames while bytes    *)
(* are available, in the order the peer wrote them (of the responses       *)
(* queued when a tick begins, the one written last is the one the inbox    *)
(* holds afterwards), and when the pass returns no buffered byte is left   *)
(* unread.                                                                 *)
(* The code calls waitForReadyRead at the top of every iteration: a pass   *)
(* that reads two frames has waited twice.                                 *)
(***************************************************************************)
ClaimC11 ==
    PassReturned
        => /\ waits <= 1
           /\ stream = <<>>
           /\ (/\ op = "giw_run_event_loop"
               /\ queued # NA
               /\ queued # <<>>
               /\ \A i \in 1..Len(queued) : queued[i] \in ResponseFrames)
                 => received_messages_ =
                        MapStore(<<>>, GetObservedSymbolsResponse,
                                 GetObservedSymbolsResponseMessage(
                                     ResponseSymbols(queued[Len(queued)])))

(***************************************************************************)
(* C12.  A read-and-dispatch pass that finds no readable bytes returns     *)
(* after that one wait with the inbox as it was, nothing consumed from the *)
(* stream and the connection as it was, and itself invokes no callback;    *)
(* the caller goes on with what was buffered before: get_observed_symbols  *)
(* returns the empty sequence (it has found no buffered response before    *)
(* it read), run_event_loop hands a PlotBufferRequest buffered earlier to  *)
(* the callback and nothing else.                                          *)
(***************************************************************************)
ThmC12 ==
    [][(try_read_incoming_messages /\ stream = <<>>)
          => /\ pc' = "done"
             /\ waits' = 1
             /\ stream' = <<>>
             /\ client_' = client_
             /\ peerOpen' = peerOpen
             /\ listening' = listening
             /\ pc = "gos_read"
                   => /\ received_messages_' = received_messages_
                      /\ log' = log
                      /\ ~got'
                      /\ ret' = RetSyms(<<>>)
             /\ pc = "rel_read"
                   => /\ DOMAIN received_messages_'
                            = DOMAIN received_messages_ \ {PlotBufferRequest}
                      /\ \A k \in DOMAIN received_messages_' :
                            received_messages_'[k] = received_messages_[k]
                      /\ Callbacks' =
                            IF PlotBufferRequest \in DOMAIN received_messages_
                            THEN <<c_str(received_messages_[PlotBufferRequest].buffer_name)>>
                            ELSE <<>>
                      /\ ret' = RetVoid]_vars

\* A tick whose read timed out has called back with a request that was
\* buffered before the tick.
WitC12 ==
    Returned("giw_run_event_loop") /\ timedOut /\ Callbacks # <<>>

\* The operation on kind k that came last before position j of the log,
\* 0 if there is none.
LastOn(k, j) ==
    IF \E i \in 1..(j - 1) : log[i][2] = k
    THEN CHOOSE i \in 1..(j - 1) :
            /\ log[i][2] = k
            /\ \A h \in (i + 1)..(j - 1) : log[h][2] # k
    ELSE 0

(***************************************************************************)
(* C13.  Inbox take-once.  After store(k, m) with no store(k, _) in        *)
(* between, take(k) returns m and removes the entry; a second take(k)      *)
(* returns absent; take(k) on a kind with no entry returns absent and      *)
(* leaves the inbox as it was; a take changes the entry of no other kind.  *)
(***************************************************************************)
ThmC13 ==
    /\ [](\A j \in 1..Len(log) :
            (log[j][1] = "take" /\ LastOn(log[j][2], j) # 0)
               => LET before == log[LastOn(log[j][2], j)]
                  IN  /\ before[1] = "store" => log[j][3] = before[3]
                      /\ before[1] = "take" => log[j][3] = nullmsg)
    /\ [][InboxTake
            => LET k == log'[Len(log')][2]
                   result == log'[Len(log')][3]
               IN  /\ k \notin DOMAIN received_messages_'
                   /\ \A j \in StoredKinds \ {k} :
                         /\ j \in DOMAIN received_messages_'
                               <=> j \in DOMAIN received_messages_
                         /\ j \in DOMAIN received_messages_
                               => received_messages_'[j] = received_messages_[j]
                   /\ k \in DOMAIN received_messages_
                         => result = received_messages_[k]
                   /\ k \notin DOMAIN received_messages_
                         => (result = nullmsg
                               /\ received_messages_' = received_messages_)]_vars

\* A message was stored, a take has returned it and the next take of the
\* kind has returned absent, the other kind's entry still there.
WitC13 ==
    /\ Len(log) = 3
    /\ log[1][1] = "store"
    /\ log[2] = <<"take", log[1][2], log[1][3]>>
    /\ log[3] = <<"take", log[1][2], nullmsg>>
    /\ received_messages_ # <<>>

(***************************************************************************)
(* C14.  Single slot, last decoded wins.  In every reachable state the     *)
(* inbox holds at most one message per kind, and only the stored kinds.    *)
(* A message stored for a kind that holds an unclaimed one discards that   *)
(* one, and the take that follows returns the later message only: of the   *)
(* PlotBufferRequests queued when a tick begins the last alone reaches the *)
(* callback, of the responses queued when get_observed_symbols begins the  *)
(* last alone is returned, and nothing of the kind is left behind.         *)
(***************************************************************************)
ThmC14 ==
    /\ DOMAIN received_messages_ \subseteq StoredKinds
    /\ (/\ Returned("giw_run_event_loop")
        /\ queued # NA
        /\ queued # <<>>
        /\ \A i \in 1..Len(queued) : queued[i] \in PlotFrames)
          => /\ Callbacks = <<PlotName(queued[Len(queued)])>>
             /\ received_messages_ = <<>>
    /\ (/\ Returned("giw_get_observed_buffers")
        /\ queued # NA
        /\ queued # <<>>
        /\ \A i \in 1..Len(queued) : queued[i] \in ResponseFrames)
          => /\ ret = RetSyms(ResponseSymbols(queued[Len(queued)]))
             /\ received_messages_ = <<>>

\* Two requests with different names were queued and the tick has called
\* back once, with the second name.
WitC14 ==
    /\ Returned("giw_run_event_loop")
    /\ queued # NA
    /\ Len(queued) = 2
    /\ queued[1] \in PlotFrames
    /\ queued[2] \in PlotFrames
    /\ queued[1] # queued[2]
    /\ Callbacks = <<PlotName(queued[2])>>

(***************************************************************************)
(* C15.  Kind/payload agreement.  In every reachable state the entry       *)
(* stored under PlotBufferRequest is a PlotBufferRequestMessage with one   *)
(* buffer name, the entry stored under GetObservedSymbolsResponse is a     *)
(* GetObservedSymbolsResponseMessage with a sequence of strings, and no    *)
(* other kind has an entry: the casts of run_event_loop and of             *)
(* get_observed_symbols are applied to messages of the type cast to.       *)
(***************************************************************************)
ThmC15 ==
    /\ DOMAIN received_messages_ \subseteq StoredKinds
    /\ PlotBufferRequest \in DOMAIN received_messages_
          => LET msg == received_messages_[PlotBufferRequest]
             IN  /\ DOMAIN msg = {"type", "buffer_name"}
                 /\ msg.type = "PlotBufferRequestMessage"
                 /\ msg.buffer_name \in Seq(Nat)
    /\ GetObservedSymbolsResponse \in DOMAIN received_messages_
          => LET msg == received_messages_[GetObservedSymbolsResponse]
             IN  /\ DOMAIN msg = {"type", "observed_symbols"}
                 /\ msg.type = "GetObservedSymbolsResponseMessage"
                 /\ msg.observed_symbols \in Seq(Seq(Nat))

\* Both kinds have an entry, after the peer has broken the protocol.
WitC15 ==
    /\ DOMAIN received_messages_ = StoredKinds
    /\ "bad" \in peerWrote

(***************************************************************************)
(* C16.  Single client for the bridge's lifetime.  A client is accepted    *)
(* only by start(), and only while there is none; once client_ is set no   *)
(* step changes it, and a connection the peer has left is not replaced by  *)
(* a live one: not by a repeated start(), a read timeout, a protocol       *)
(* violation or the peer's disconnect.                                     *)
(***************************************************************************)
ThmC16 ==
    [][/\ client_ # NULL => client_' = client_
       /\ (client_ # NULL /\ ~peerOpen) => ~peerOpen'
       /\ client_' # client_
             => (/\ client_ = NULL
                 /\ op' = "giw_exec"
                 /\ log' = << <<"spawn">>, <<"wait">> >>)]_vars

\* start() was called again after the peer had left: it has returned
\* false and the connection is the one the peer left.
WitC16 ==
    Returned("giw_exec") /\ client_ # NULL /\ ~peerOpen /\ ~ret.b

(***************************************************************************)
(* C17.  Stale response.  Every get_observed_symbols() call sends exactly  *)
(* one GetObservedSymbols request; when a GetObservedSymbolsResponse is    *)
(* buffered in the inbox as the call starts, the call returns the symbols  *)
(* of that message, takes it out of the inbox and makes no socket read: it *)
(* does not wait and the stream keeps every byte, the reply to the request *)
(* just sent included.                                                     *)
(***************************************************************************)
ThmC17 ==
    /\ [](Returned("giw_get_observed_buffers")
             => Sends = << <<GetObservedSymbols>> >>)
    /\ [][/\ (pc = "idle" /\ handler = "live" /\ crash' = "none"
                 /\ op' = "giw_get_observed_buffers")
             => /\ pc' = "gos_fetch"
                /\ log' = << <<"send", <<GetObservedSymbols>> >> >>
                /\ stream' = stream
                /\ received_messages_' = received_messages_
          /\ (fetch_stored /\ GetObservedSymbolsResponse \in DOMAIN received_messages_)
             => LET buffered ==
                        received_messages_[GetObservedSymbolsResponse].observed_symbols
                IN  /\ pc' = "done"
                    /\ got'
                    /\ ret' = RetSyms([i \in 1..Len(buffered) |-> c_str(buffered[i])])
                    /\ GetObservedSymbolsResponse \notin DOMAIN received_messages_'
                    /\ stream' = stream
                    /\ waits' = 0
                    /\ ~timedOut'
                    /\ log' = log]_vars

\* The call has returned a buffered response; the reply to its own
\* request, a different one, is in the stream, unread.
WitC17 ==
    /\ Returned("giw_get_observed_buffers")
    /\ got
    /\ waits = 0
    /\ reply # NA
    /\ ret # RetSyms(reply)
    /\ stream # <<>>

(***************************************************************************)
(* C18.  Cross-path retention.  The plot callback is invoked from          *)
(* run_event_loop() only.  A PlotBufferRequest in the inbox, one decoded   *)
(* while get_observed_symbols() was reading included, stays there          *)
(* unchanged until a later PlotBufferRequest is decoded over it or a       *)
(* run_event_loop() tick hands it to the callback: a request decoded by    *)
(* the read pass of get_observed_symbols() is stored and not called back;  *)
(* a tick ends with no request in the inbox, having called back with the   *)
(* request it decoded last or, if it decoded none, with the one that was   *)
(* buffered.  A GetObservedSymbolsResponse decoded during a tick is in the *)
(* inbox when the tick returns, and one buffered before is left as it was  *)
(* unless the tick decodes another.                                        *)
(***************************************************************************)
ThmC18 ==
    /\ [](Callbacks # <<>> => op = "giw_run_event_loop")
    /\ [][LET reads(k) == try_read_incoming_messages /\ stream # <<>> /\ Head(stream) = k
              held(k) == k \in DOMAIN received_messages_
              kept(k) == /\ k \in DOMAIN received_messages_'
                         /\ received_messages_'[k] = received_messages_[k]
              tickEnds == try_read_incoming_messages /\ pc = "rel_read" /\ pc' = "done"
          IN  /\ held(PlotBufferRequest)
                    => \/ kept(PlotBufferRequest)
                       \/ reads(PlotBufferRequest)
                       \/ /\ tickEnds
                          /\ Callbacks' =
                                <<c_str(received_messages_[PlotBufferRequest].buffer_name)>>
              /\ (reads(PlotBufferRequest) /\ pc = "gos_read")
                    => /\ PlotBufferRequest \in DOMAIN received_messages_'
                       /\ received_messages_'[PlotBufferRequest]
                             = decode_plot_buffer_request(Tail(stream)).msg
                       /\ log' = log
              /\ tickEnds
                    => /\ PlotBufferRequest \notin DOMAIN received_messages_'
                       /\ reads(PlotBufferRequest)
                             => Callbacks' = <<c_str(decode_plot_buffer_request(
                                                        Tail(stream)).msg.buffer_name)>>
                       /\ (~held(PlotBufferRequest) /\ ~reads(PlotBufferRequest))
                             => Callbacks' = <<>>
              /\ (try_read_incoming_messages /\ pc = "rel_read")
                    => /\ reads(GetObservedSymbolsResponse)
                             => /\ GetObservedSymbolsResponse \in DOMAIN received_messages_'
                                /\ received_messages_'[GetObservedSymbolsResponse]
                                      = decode_get_observed_symbols_response(Tail(stream)).msg
                       /\ (held(GetObservedSymbolsResponse)
                              /\ ~reads(GetObservedSymbolsResponse))
                             => kept(GetObservedSymbolsResponse)
                       /\ (~held(GetObservedSymbolsResponse)
                              /\ ~reads(GetObservedSymbolsResponse))
                             => GetObservedSymbolsResponse \notin DOMAIN received_messages_']_vars

\* A tick whose read timed out has called back with a request that a
\* get_observed_symbols() call had decoded, the peer keeping to the protocol.
WitC18 ==
    /\ Returned("giw_run_event_loop")
    /\ timedOut
    /\ Callbacks # <<>>
    /\ "bad" \notin peerWrote
    /\ "response" \notin peerWrote

====
